---- MODULE Spec2Model ----
(***************************************************************************)
(* The Acuity webhook receiver, src/accuity-handler.py: AcuityView.post    *)
(* and its two helpers _save_talent_pi_datastore and _save_zendek_comment. *)
(*                                                                         *)
(* One webhook delivery is handled sequentially (no concurrency inside a   *)
(* request); the handler is cut into the blocks of post, one action each,  *)
(* with pc the position inside post.  Every call to an external            *)
(* collaborator (calendaring API, datastore, portal, ticket system, error  *)
(* monitoring, tracking) is appended to effects, in call order.            *)
(*                                                                         *)
(* Strings that the code inspects by prefix are sequences of their         *)
(* dot-separated tokens: 'appointment.scheduled' is                        *)
(* <<"appointment", "scheduled">>.                                         *)
(***************************************************************************)
EXTENDS Integers, Sequences, FiniteSets, TLC

\* ---------------------------------------------------------------- bounds
\* Distinct e-mail addresses; 0 stands for "no e-mail" (None or '').
NumEmails == 2
\* Distinct phone numbers; 0 stands for "no phone" (None or '').
NumPhones == 2
\* Largest number of values named CandidateId (JobId) in the fetched form.
MaxFormValues == 2

\* ------------------------------------------------------------- constants
SCHEDULED == <<"scheduled">>
RESCHEDULED == <<"rescheduled">>
CANCELED == <<"canceled">>
JOB_CLOSED == "closed"
CALL_SCHEDULED == "CALL_SCHEDULED"
CALL_CANCELED == "CALL_CANCELED"
PROD == "prod"
QA == "qa"
DEV == "dev"

\* talent_id = None
None == 0
\* The candidate id carried by the form.
TalentId == 1

VARIABLES
    namespace,     \* os.getenv(ENV_CURRENT_NAMESPACE)
    jobStore,      \* the JobModel entity of the form's JobId: namespace it lives in, status
    talentStore,   \* the TalentPIModel entity of the form's CandidateId
    contactStore,  \* the job's contact for the candidate
    ticket,        \* the support ticket of that contact
    appointment,   \* the appointment record held by the calendaring service
    pc,            \* position inside post
    raw_action,    \* kwargs.get('action')
    action,        \* post's local `action`
    json_data,     \* post's local `json_data`
    talent_id,     \* post's local `talent_id`
    job,           \* post's local `job`: TRUE an entity, FALSE None
    effects,       \* external calls made while handling the current delivery
    comment,       \* body of the comment put on the ticket by this delivery
    reason,        \* how update_ticket_to_solved was called by this delivery
    ticket_read,   \* the ticket as zenpy.tickets(id=ticket_id) returned it
    resp           \* response sent for the current delivery

stores == <<namespace, jobStore, talentStore, contactStore, ticket, appointment>>
vars == <<namespace, jobStore, talentStore, contactStore, ticket, appointment,
          pc, raw_action, action, json_data, talent_id, job, effects, comment, reason,
          ticket_read, resp>>

\* ------------------------------------------------------------ value sets
Emails == 0..NumEmails
Phones == 0..NumPhones

InSeq(x, s) == \E i \in 1..Len(s) : s[i] = x

NoDup(s) == \A i, j \in 1..Len(s) : i # j => s[i] # s[j]

SeqsUpTo(S, n) == UNION {[1..k -> S] : k \in 0..n}

\* talent_pi.mobile as the datastore holds it: a list without repetition.
MobileLists == {m \in SeqsUpTo(1..NumPhones, NumPhones) : NoDup(m)}

\* ticket.tags as the ticket system returns it: a list without repetition.
TagLists == {t \in SeqsUpTo({CALL_SCHEDULED, CALL_CANCELED}, 2) : NoDup(t)}

NoTalent == [exists |-> FALSE, email |-> 0, mobile |-> <<>>]
NoContact == [exists |-> FALSE, status |-> "none"]
NoTicket == [status |-> "open", tags |-> <<>>, not_interested |-> ""]
NoJson == [email |-> 0, phone |-> 0]
NoJob == [ns |-> "none", status |-> "open"]

NoResponse == [status |-> 0, body |-> "none"]
NotResolved == "not_called"
NoReason == "no_reason"

E(op, arg) == [op |-> op, arg |-> arg]

Ops(effs) == [i \in 1..Len(effs) |-> effs[i].op]

\* --------------------------------------------------------------- helpers
\* Mutant of jsonify_empty: the handler answers with a body that is not empty.
jsonify_status == [status |-> 200, body |-> "{\"status\": \"ignored\"}"]

\* jsonify({}): 200 with an empty JSON object.
jsonify_empty == [status |-> 200, body |-> "{}"]

\* services.sentry.catch_exception around post and the two helpers: the
\* exception is reported and the decorated function ends without raising.
catch_exception(effs) == Append(effs, E("sentry.captureException", <<>>))

\* What the sender gets when catch_exception ends post.
caught_response == [status |-> 200, body |-> "{}"]

\* post, lines 40-41.
StripPrefix(raw) ==
    IF Len(raw) >= 2 /\ raw[1] = "appointment" THEN Tail(raw) ELSE raw

\* Mutant of IsProcessed: the filter looks at the last token only.
IsProcessedBySuffix(a) ==
    a # <<>> /\ <<a[Len(a)]>> \in {SCHEDULED, RESCHEDULED, CANCELED}

\* post, line 43.
IsProcessed(a) == a \in {SCHEDULED, RESCHEDULED, CANCELED}

\* list.remove(x): drops the first occurrence of x.
RECURSIVE ListRemove(_, _)
ListRemove(s, x) ==
    IF s = <<>> THEN <<>>
    ELSE IF Head(s) = x THEN Tail(s)
    ELSE <<Head(s)>> \o ListRemove(Tail(s), x)

\* TalentPIModel.add_mobile.
add_mobile(mobile, phone) == Append(mobile, phone)

\* ------------------------------------------------------------------ Init
\* The stores before the first delivery.  The candidate entity is read and
\* written only by lines 92-103 and _save_talent_pi_datastore, the contact
\* and the ticket only by lines 140-142 and _save_zendek_comment, and the
\* two share no data, so the initial contents vary one side at a time.
\* A contact belongs to a job of the current namespace, a ticket to a
\* contact.
\*
\* Job, namespace, contact and ticket take every value.
InitTicketSide ==
    /\ namespace \in {PROD, QA}
    /\ jobStore \in [ns : {PROD, QA, DEV, "none"}, status : {"open", JOB_CLOSED}]
    /\ jobStore.ns = "none" => jobStore = NoJob
    /\ talentStore \in {NoTalent, [exists |-> TRUE, email |-> 0, mobile |-> <<>>]}
    /\ appointment \in {NoJson, [email |-> 1, phone |-> 1]}
    /\ contactStore \in {NoContact}
           \cup [exists : {TRUE}, status : {"not_interested", "contacted"}]
    /\ (jobStore.ns # namespace) => contactStore = NoContact
    /\ ticket \in [status : {"open", "pending", "solved"},
                   tags : TagLists,
                   not_interested : {"", "salary"}]
    /\ ~contactStore.exists => ticket = NoTicket

\* The candidate entity and the appointment's e-mail and phone take every value.
InitTalentSide ==
    /\ namespace = QA
    /\ jobStore = [ns |-> QA, status |-> "open"]
    /\ talentStore \in {NoTalent}
           \cup [exists : {TRUE}, email : Emails, mobile : MobileLists]
    /\ appointment \in [email : Emails, phone : Phones]
    /\ contactStore = [exists |-> TRUE, status |-> "contacted"]
    /\ ticket = NoTicket

Init ==
    /\ InitTicketSide \/ InitTalentSide
    /\ pc = "ready"
    /\ raw_action = <<>>
    /\ action = <<>>
    /\ json_data = NoJson
    /\ talent_id = None
    /\ job = FALSE
    /\ effects = <<>>
    /\ comment = <<>>
    /\ reason = NotResolved
    /\ ticket_read = NoTicket
    /\ resp = NoResponse

\* ------------------------------------------------------ post, lines 36-44
RawActions ==
    {<<n>> : n \in {"scheduled", "rescheduled", "canceled", "changed"}}
    \cup {<<"appointment", n>> : n \in {"scheduled", "rescheduled", "canceled", "changed"}}
    \cup {<<"appointment", "appointment", "scheduled">>, <<"appointment">>}

Receive(raw) ==
    /\ pc \in {"ready", "done"}
    /\ raw_action' = raw
    /\ action' = StripPrefix(raw)
    /\ json_data' = NoJson
    /\ talent_id' = None
    /\ job' = FALSE
    /\ effects' = <<>>
    /\ comment' = <<>>
    /\ reason' = NotResolved
    /\ ticket_read' = NoTicket
    /\ IF IsProcessed(action')
         THEN pc' = "fetch" /\ resp' = NoResponse
         ELSE pc' = "done" /\ resp' = jsonify_empty
    /\ UNCHANGED stores

\* ------------------------------------------------------ post, lines 46-66
\* ok: the HTTP status is a success; hasForm: a form named CandidateID is
\* in the response; nCand, nJob: how many of its values are named
\* CandidateId and JobId.
Fetch ==
    /\ pc = "fetch"
    /\ \E ok \in BOOLEAN, hasForm \in BOOLEAN,
          nCand \in 0..MaxFormValues, nJob \in 0..MaxFormValues :
         LET got == Append(effects, E("acuity.get", <<>>)) IN
         IF ~ok \/ ~hasForm \/ nJob # 1
           THEN /\ effects' = catch_exception(got)
                /\ resp' = caught_response
                /\ pc' = "done"
                /\ UNCHANGED <<json_data, talent_id, job>>
           ELSE /\ json_data' = appointment
                /\ talent_id' = (IF nCand = 1 THEN TalentId ELSE None)
                /\ effects' = Append(got, E("JobModel.get", <<>>))
                /\ job' = (jobStore.ns = namespace)
                /\ resp' = resp
                /\ pc' = "resolve"
    /\ UNCHANGED <<stores, raw_action, action, comment, reason, ticket_read>>

\* Mutant of UnknownJobPolicy: the namespace test of line 71 is missing.
UnknownJobPolicyAnyNs(ns, jobNs, act) ==
    IF jobNs = QA
      THEN [ret |-> TRUE, eff |-> <<E("JobModel.get.qa", <<>>)>>]
    ELSE IF jobNs = DEV
      THEN [ret |-> TRUE,
            eff |-> <<E("JobModel.get.qa", <<>>), E("JobModel.get.dev", <<>>)>>]
    ELSE [ret |-> FALSE,
          eff |-> <<E("JobModel.get.qa", <<>>), E("JobModel.get.dev", <<>>),
                    E("sentry.captureMessage", act \o <<"formsText">>)>>]

\* ------------------------------------------------------ post, lines 68-87
\* What post does when `job` is None: the datastore lookups it makes, and
\* whether it returns {} (ret) or reports the anomaly and goes on.
UnknownJobPolicy(ns, jobNs, act) ==
    IF ns # PROD
      THEN [ret |-> TRUE, eff |-> <<>>]
    ELSE IF jobNs = QA
      THEN [ret |-> TRUE, eff |-> <<E("JobModel.get.qa", <<>>)>>]
    ELSE IF jobNs = DEV
      THEN [ret |-> TRUE,
            eff |-> <<E("JobModel.get.qa", <<>>), E("JobModel.get.dev", <<>>)>>]
    ELSE [ret |-> FALSE,
          eff |-> <<E("JobModel.get.qa", <<>>), E("JobModel.get.dev", <<>>),
                    E("sentry.captureMessage", act \o <<"formsText">>)>>]

AfterPolicy(act) == IF act = SCHEDULED THEN "scheduled" ELSE "contact"

JobPolicy ==
    /\ pc = "resolve"
    /\ IF job
         THEN /\ pc' = AfterPolicy(action)
              /\ UNCHANGED <<effects, resp>>
         ELSE LET p == UnknownJobPolicy(namespace, jobStore.ns, action) IN
              /\ effects' = effects \o p.eff
              /\ IF p.ret
                   THEN pc' = "done" /\ resp' = jsonify_empty
                   ELSE pc' = AfterPolicy(action) /\ resp' = resp
    /\ UNCHANGED <<stores, raw_action, action, json_data, talent_id, job, comment, reason,
                   ticket_read>>

\* Mutant of SaveTalentPi: the fetched e-mail is stored whenever there is one.
SaveTalentPiOverwrite(tid, jd, tp) ==
    IF tid = None \/ (jd.email = 0 /\ jd.phone = 0)
      THEN [talent |-> tp, eff |-> <<>>]
    ELSE IF ~tp.exists
      THEN [talent |-> tp, eff |-> <<E("TalentPI.get", <<>>)>>]
    ELSE
      LET setEmail == jd.email # 0
          addPhone == jd.phone # 0 /\ ~InSeq(jd.phone, tp.mobile)
          is_dirty == setEmail \/ addPhone
      IN  [talent |-> [exists |-> TRUE,
                       email  |-> IF setEmail THEN jd.email ELSE tp.email,
                       mobile |-> IF addPhone THEN Append(tp.mobile, jd.phone)
                                              ELSE tp.mobile],
           eff |-> <<E("TalentPI.get", <<>>)>>
                   \o (IF is_dirty THEN <<E("TalentPI.put", <<>>)>> ELSE <<>>)]

\* ------------------------------- _save_talent_pi_datastore, lines 157-184
\* The entity after the call and the datastore calls made.
SaveTalentPi(tid, jd, tp) ==
    IF tid = None
      THEN [talent |-> tp, eff |-> <<>>]
    ELSE IF jd.email = 0 /\ jd.phone = 0
      THEN [talent |-> tp, eff |-> <<>>]
    ELSE IF ~tp.exists
      THEN [talent |-> tp, eff |-> <<E("TalentPI.get", <<>>)>>]
    ELSE
      LET setEmail == tp.email = 0 /\ jd.email # 0
          addPhone == jd.phone # 0 /\ ~InSeq(jd.phone, tp.mobile)
          is_dirty == setEmail \/ addPhone
      IN  [talent |-> [exists |-> TRUE,
                       email  |-> IF setEmail THEN jd.email ELSE tp.email,
                       mobile |-> IF addPhone THEN add_mobile(tp.mobile, jd.phone)
                                              ELSE tp.mobile],
           eff |-> <<E("TalentPI.get", <<>>)>>
                   \o (IF is_dirty THEN <<E("TalentPI.put", <<>>)>> ELSE <<>>)]

\* ----------------------------------------------------- post, lines 89-136
\* Line 92 reads the candidate again; with talent_id None or no entity the
\* read raises or yields None, and line 93 then raises.  With job None
\* line 93 (job.lang_code) or line 95 (job.key) raises.  portalOk: add_candidate
\* succeeds; personality: the job asks for the personality check at this step.
\* A failure of candidate_enable_personality or of Application.delete is
\* logged and swallowed (lines 122-136): the call is recorded either way.
Scheduled ==
    /\ pc = "scheduled"
    /\ LET s == SaveTalentPi(talent_id, json_data, talentStore)
           read == (effects \o s.eff) \o <<E("TalentPI.get", <<>>)>>
           found == talent_id # None /\ s.talent.exists
       IN
       /\ talentStore' = s.talent
       /\ IF ~found \/ ~job
            THEN /\ effects' = catch_exception(read)
                 /\ resp' = caught_response
                 /\ pc' = "done"
            ELSE \E portalOk \in BOOLEAN, personality \in BOOLEAN :
                 IF ~portalOk
                   THEN /\ effects' = catch_exception(Append(read, E("add_candidate", <<>>)))
                        /\ resp' = caught_response
                        /\ pc' = "done"
                   ELSE /\ effects' =
                             read \o <<E("add_candidate", <<>>), E("Analytics.put", <<>>)>>
                                  \o (IF personality
                                        THEN <<E("enable_personality", <<>>)>> ELSE <<>>)
                                  \o <<E("Application.delete", <<>>)>>
                        /\ resp' = resp
                        /\ pc' = "contact"
    /\ UNCHANGED <<namespace, jobStore, contactStore, ticket, appointment,
                   raw_action, action, json_data, talent_id, job, comment, reason, ticket_read>>

\* ---------------------------------------------------- post, lines 138-144
\* job.get_contact on job None, and the update of a contact that is None,
\* raise inside the try block.
ContactUpdate ==
    /\ pc = "contact"
    /\ LET appt == Append(effects, E("Appointment", <<>>)) IN
       effects' =
         IF ~job
           THEN Append(appt, E("sentry.captureException", <<>>))
         ELSE IF talent_id = None \/ ~contactStore.exists
           THEN appt \o <<E("Contact.get", <<>>), E("sentry.captureException", <<>>)>>
         ELSE appt \o <<E("Contact.get", <<>>), E("Contact.put", <<>>)>>
    /\ pc' = "zendesk"
    /\ UNCHANGED <<stores, raw_action, action, json_data, talent_id, job, comment, reason,
                   ticket_read, resp>>

\* ------------------------------------ _save_zendek_comment, lines 204-229
\* The comment as its lines: the optional 'Job closed' marker, the template
\* of the action, the duration, then the e-mail and phone lines.
CommentFor(act, jobStatus, jd) ==
    (IF act = CANCELED /\ jobStatus = JOB_CLOSED THEN <<"Job closed">> ELSE <<>>)
    \o act
    \o <<"Duration">>
    \o (IF jd.email # 0 THEN <<"Email">> ELSE <<>>)
    \o (IF jd.phone # 0 THEN <<"Phone">> ELSE <<>>)

\* Mutant of StatusFor: only the re-engagement case reopens the ticket.
StatusForReengageOnly(status, act, contactStatus) ==
    IF status = "solved" /\ act = SCHEDULED /\ contactStatus = "not_interested"
      THEN "pending"
      ELSE status

\* _save_zendek_comment, lines 234-236.
StatusFor(status, act, contactStatus) ==
    IF status = "open"
       \/ (status = "solved" /\ act = SCHEDULED /\ contactStatus = "not_interested")
      THEN "pending"
      ELSE status

\* Mutant of TagsFor: a canceled event leaves CALL_SCHEDULED in place.
TagsForKeepScheduled(tags, act) ==
    IF act = CANCELED
      THEN IF ~InSeq(CALL_CANCELED, tags) THEN Append(tags, CALL_CANCELED) ELSE tags
      ELSE LET t1 == IF ~InSeq(CALL_SCHEDULED, tags)
                       THEN Append(tags, CALL_SCHEDULED) ELSE tags
           IN  IF InSeq(CALL_CANCELED, t1) THEN ListRemove(t1, CALL_CANCELED) ELSE t1

\* Mutant of TagsFor: a scheduled or rescheduled event leaves CALL_CANCELED in place.
TagsForKeepCanceled(tags, act) ==
    IF act = CANCELED
      THEN LET t1 == IF InSeq(CALL_SCHEDULED, tags)
                       THEN ListRemove(tags, CALL_SCHEDULED) ELSE tags
           IN  IF ~InSeq(CALL_CANCELED, t1) THEN Append(t1, CALL_CANCELED) ELSE t1
      ELSE IF ~InSeq(CALL_SCHEDULED, tags) THEN Append(tags, CALL_SCHEDULED) ELSE tags

\* _save_zendek_comment, lines 238-242 and 254-258.
TagsFor(tags, act) ==
    IF act = CANCELED
      THEN LET t1 == IF InSeq(CALL_SCHEDULED, tags)
                       THEN ListRemove(tags, CALL_SCHEDULED) ELSE tags
           IN  IF ~InSeq(CALL_CANCELED, t1) THEN Append(t1, CALL_CANCELED) ELSE t1
      ELSE LET t1 == IF ~InSeq(CALL_SCHEDULED, tags)
                       THEN Append(tags, CALL_SCHEDULED) ELSE tags
           IN  IF InSeq(CALL_CANCELED, t1) THEN ListRemove(t1, CALL_CANCELED) ELSE t1

\* Mutant of ReasonFor: 'job_closed' is used only when the custom field is empty.
ReasonForFieldFirst(customField, jobStatus) ==
    IF customField # "" THEN customField
    ELSE IF jobStatus = JOB_CLOSED THEN "job_closed"
    ELSE NoReason

\* _save_zendek_comment, lines 245-253: the reason handed to
\* update_ticket_to_solved, NoReason when it is called without one.
ReasonFor(customField, jobStatus) ==
    LET r == IF jobStatus = JOB_CLOSED THEN "job_closed" ELSE customField
    IN  IF r # "" THEN r ELSE NoReason

\* services.zendesk.update_ticket_to_solved: resolves the ticket.
update_ticket_to_solved(t) == [t EXCEPT !.status = "solved"]

\* _save_zendek_comment, lines 231-260: the ticket object handed to
\* zenpy.tickets.update.
TicketFor(t, act, contactStatus) ==
    LET t1 == [t EXCEPT !.status = StatusFor(t.status, act, contactStatus),
                        !.tags = TagsFor(t.tags, act)]
    IN  IF act = CANCELED THEN update_ticket_to_solved(t1) ELSE t1

\* ---------------------- post, line 146: _save_zendek_comment, lines 188-260
\* zendeskOk: the read of the ticket succeeds; a failure is caught by the
\* helper's own catch_exception and post goes on.
SaveZendeskComment ==
    /\ pc = "zendesk"
    /\ IF talent_id = None \/ ~job
         THEN UNCHANGED <<effects, ticket, comment, reason, ticket_read>>
       ELSE IF ~contactStore.exists
         THEN /\ effects' = Append(effects, E("Contact.get", <<>>))
              /\ UNCHANGED <<ticket, comment, reason, ticket_read>>
       ELSE \E zendeskOk \in BOOLEAN :
            LET got == effects \o <<E("Contact.get", <<>>), E("ticket.get", <<>>)>> IN
            IF ~zendeskOk
              THEN /\ effects' = catch_exception(got)
                   /\ UNCHANGED <<ticket, comment, reason, ticket_read>>
              ELSE /\ ticket_read' = ticket
                   /\ comment' = CommentFor(action, jobStore.status, json_data)
                   /\ ticket' = TicketFor(ticket, action, contactStore.status)
                   /\ reason' = (IF action = CANCELED
                                   THEN ReasonFor(ticket.not_interested, jobStore.status)
                                   ELSE NotResolved)
                   /\ effects' =
                        got \o (IF action = CANCELED
                                  THEN <<E("update_ticket_to_solved", <<reason'>>)>>
                                  ELSE <<>>)
                            \o <<E("ticket.update", <<>>)>>
    /\ pc' = "track"
    /\ UNCHANGED <<namespace, jobStore, talentStore, contactStore, appointment,
                   raw_action, action, json_data, talent_id, job, resp>>

\* ---------------------------------------------------- post, lines 148-153
TrackArgs(j, tid, act) ==
    <<IF j THEN "job" ELSE "None", IF tid = None THEN "None" ELSE "talent">>
    \o act \o <<"appointment_date">>

Track ==
    /\ pc = "track"
    /\ effects' = Append(effects, E("track_scheduled_call", TrackArgs(job, talent_id, action)))
    /\ resp' = jsonify_empty
    /\ pc' = "done"
    /\ UNCHANGED <<stores, raw_action, action, json_data, talent_id, job, comment, reason,
                   ticket_read>>

\* ------------------------------------------------------------------ Spec
Next ==
    \/ \E raw \in RawActions : Receive(raw)
    \/ Fetch
    \/ JobPolicy
    \/ Scheduled
    \/ ContactUpdate
    \/ SaveZendeskComment
    \/ Track

Spec == Init /\ [][Next]_vars

\* ================================================================ claims
OkEmpty == [status |-> 200, body |-> "{}"]

Processed == {<<"scheduled">>, <<"rescheduled">>, <<"canceled">>}

DidIn(effs, op) == \E i \in 1..Len(effs) : effs[i].op = op

Did(op) == DidIn(effects, op)

Count(op) == Cardinality({i \in 1..Len(effects) : effects[i].op = op})

\* The Ticket Annotator ran to its end for the current delivery.
Annotated == pc \in {"track", "done"} /\ Did("ticket.update")

\* C1: a delivery whose action, once a leading 'appointment.' is stripped,
\* is not scheduled, rescheduled or canceled is answered {} in one step,
\* with no external call and no change to any store.
C1_UnprocessedActionIsNoOp ==
    [][(pc \in {"ready", "done"} /\ StripPrefix(raw_action') \notin Processed)
         => /\ pc' = "done"
            /\ resp' = OkEmpty
            /\ effects' = <<>>
            /\ UNCHANGED stores]_vars

C1_Witness ==
    /\ pc = "done"
    /\ raw_action = <<"appointment", "changed">>
    /\ resp = OkEmpty
    /\ effects = <<>>

\* C2: whatever happened while a delivery was handled, the response is 200
\* with an empty JSON object, and no response is sent before the end.
C2_AlwaysOkEmpty ==
    /\ pc = "done" => resp = OkEmpty
    /\ pc \notin {"ready", "done"} => resp = NoResponse

C2_Witness ==
    /\ pc = "done"
    /\ resp = OkEmpty
    /\ Ops(effects) = <<"acuity.get", "sentry.captureException">>

\* C3: the enrichment of a scheduled delivery never replaces a stored
\* e-mail, sets the e-mail to the fetched one only when none is stored,
\* appends the fetched phone only when it is not in the list (which stays
\* without repetition), writes the entity exactly when a field changed, and
\* applied again to its own result changes nothing and writes nothing.
C3_EnrichmentNeverOverwrites ==
    [][pc = "scheduled" =>
         LET old == talentStore
             new == talentStore'
             again == SaveTalentPi(talent_id, json_data, new)
         IN  /\ old.email # 0 => new.email = old.email
             /\ new.email # old.email => new.email = json_data.email
             /\ NoDup(new.mobile)
             /\ new.mobile # old.mobile
                  => /\ ~InSeq(json_data.phone, old.mobile)
                     /\ new.mobile = Append(old.mobile, json_data.phone)
             /\ (new.mobile = old.mobile /\ json_data.phone # 0 /\ old.exists
                   /\ talent_id # None)
                  => InSeq(json_data.phone, old.mobile)
             /\ DidIn(effects', "TalentPI.put") <=> new # old
             /\ again.talent = new
             /\ ~DidIn(again.eff, "TalentPI.put")]_vars

C3_Witness ==
    /\ pc = "contact"
    /\ action = SCHEDULED
    /\ talentStore.email # 0
    /\ json_data.email # 0
    /\ talentStore.email # json_data.email
    /\ Len(talentStore.mobile) = 2
    /\ talentStore.mobile[2] = json_data.phone
    /\ Did("TalentPI.put")

\* C4: after a canceled event went through the Ticket Annotator the ticket
\* has the tag CALL_CANCELED and not the tag CALL_SCHEDULED, whatever tags
\* it had when it was read.
C4_CanceledTags ==
    (Annotated /\ action = CANCELED)
      => /\ ~InSeq(CALL_SCHEDULED, ticket.tags)
         /\ InSeq(CALL_CANCELED, ticket.tags)

C4_Witness ==
    /\ Annotated
    /\ action = CANCELED
    /\ ticket_read.tags = <<CALL_CANCELED, CALL_SCHEDULED>>
    /\ ticket.tags = <<CALL_CANCELED>>

\* C5: after a scheduled or rescheduled event went through the Ticket
\* Annotator the ticket has the tag CALL_SCHEDULED and not the tag
\* CALL_CANCELED, whatever tags it had when it was read.
C5_ScheduledTags ==
    (Annotated /\ action \in {SCHEDULED, RESCHEDULED})
      => /\ InSeq(CALL_SCHEDULED, ticket.tags)
         /\ ~InSeq(CALL_CANCELED, ticket.tags)

C5_Witness ==
    /\ Annotated
    /\ action = RESCHEDULED
    /\ ticket_read.tags = <<CALL_SCHEDULED, CALL_CANCELED>>
    /\ ticket.tags = <<CALL_SCHEDULED>>

\* C6 as claimed: for every processed action, a ticket read with status
\* 'open' has status 'pending' after the Ticket Annotator ran.
C6_OpenBecomesPending ==
    (Annotated /\ ticket_read.status = "open") => ticket.status = "pending"

\* C6: a ticket read with status 'open' has status 'pending' after a
\* scheduled or rescheduled event went through the Ticket Annotator; after
\* a canceled event the ticket was resolved and its status is 'solved'.
C6_OpenBecomesPendingUnlessCanceled ==
    (Annotated /\ ticket_read.status = "open")
      => ticket.status = (IF action = CANCELED THEN "solved" ELSE "pending")

C6_Witness ==
    /\ Annotated
    /\ action = RESCHEDULED
    /\ ticket_read.status = "open"
    /\ ticket.status = "pending"

\* C7: a canceled event on a closed job puts a comment that begins with
\* 'Job closed' and resolves the ticket with reason 'job_closed' whatever
\* the custom field holds; on a job that is not closed the comment has no
\* such first line and the reason is the custom field's value, or none
\* when the field is empty.
C7_JobClosedReason ==
    (Annotated /\ action = CANCELED)
      => /\ Count("update_ticket_to_solved") = 1
         /\ DidIn(effects, "update_ticket_to_solved")
         /\ \A i \in 1..Len(effects) :
              effects[i].op = "update_ticket_to_solved" => effects[i].arg = <<reason>>
         /\ IF jobStore.status = "closed"
              THEN Head(comment) = "Job closed" /\ reason = "job_closed"
              ELSE /\ Head(comment) = "canceled"
                   /\ reason = (IF ticket_read.not_interested # ""
                                  THEN ticket_read.not_interested ELSE NoReason)

C7_Witness ==
    /\ Annotated
    /\ action = CANCELED
    /\ jobStore.status = "closed"
    /\ ticket_read.not_interested = "salary"
    /\ Head(comment) = "Job closed"
    /\ reason = "job_closed"

\* C8: when the job id is not in the current namespace and that namespace
\* is not production, the step after the job lookup answers {} and makes no
\* further external call and no change to any store.
C8_UnknownJobOutsideProd ==
    [][(pc = "resolve" /\ jobStore.ns # namespace /\ namespace # "prod")
         => /\ pc' = "done"
            /\ resp' = OkEmpty
            /\ Ops(effects') = <<"acuity.get", "JobModel.get">>
            /\ UNCHANGED stores]_vars

C8_Witness ==
    /\ pc = "done"
    /\ action = SCHEDULED
    /\ namespace = "qa"
    /\ jobStore.ns = "none"
    /\ resp = OkEmpty
    /\ Ops(effects) = <<"acuity.get", "JobModel.get">>

\* The current delivery got past the fetch, the JobId extraction and the
\* unknown-job policy.
PassedPolicy ==
    /\ Did("JobModel.get")
    /\ jobStore.ns # namespace
         => (namespace = "prod" /\ jobStore.ns \notin {"qa", "dev"})

\* add_candidate failed: a branch C9 does not list.
PortalFailed ==
    \E i \in 1..Len(effects) - 1 :
        effects[i].op = "add_candidate" /\ effects[i + 1].op = "sentry.captureException"

\* C9 as claimed: every delivery that got past the unknown-job policy ends
\* with exactly one tracking call, made last, carrying job, candidate id,
\* action and appointment date, whichever branch the steps in between took.
C9_TrackedOnce ==
    (pc = "done" /\ PassedPolicy /\ ~PortalFailed)
      => /\ Count("track_scheduled_call") = 1
         /\ effects[Len(effects)] =
              E("track_scheduled_call", TrackArgs(job, talent_id, action))

\* C10 as claimed: in production, a job id found in no namespace is
\* reported once and post goes on with job None (the contact update runs
\* and reports its failure, the Ticket Annotator is skipped, the tracking
\* call is made); a job id found in QA or dev is answered {} with no report
\* and no further step.
C10_UnknownJobInProd ==
    (pc = "done" /\ Did("JobModel.get") /\ namespace = "prod" /\ jobStore.ns # "prod")
      => IF jobStore.ns \in {"qa", "dev"}
           THEN /\ resp = OkEmpty
                /\ ~Did("sentry.captureMessage")
                /\ ~Did("sentry.captureException")
                /\ effects[Len(effects)].op \in {"JobModel.get.qa", "JobModel.get.dev"}
           ELSE /\ Count("sentry.captureMessage") = 1
                /\ \E i \in 1..Len(effects) :
                     effects[i] = E("sentry.captureMessage", action \o <<"formsText">>)
                /\ ~job
                /\ \E i \in 1..Len(effects) - 1 :
                     /\ effects[i].op = "Appointment"
                     /\ effects[i + 1].op = "sentry.captureException"
                /\ ~Did("ticket.get")
                /\ ~Did("ticket.update")

====
